---- MODULE Spec2Model ----
(***************************************************************************)
(* Navigational-list menu service: the store of MenuItem documents and the *)
(* operations of MenuService (create, update, remove, archive, the reads,  *)
(* move, flat reorder, tree reorder), modelled from the TypeScript         *)
(* sources.  Move is modelled twice: as one step, and await by await for   *)
(* concurrent calls and for calls whose store fails.                       *)
(*                                                                         *)
(* store is the collection; prev, op, arg and err record the last call (the  *)
(* store before it, its name, its input and the error it threw); result is *)
(* what the last call returned; calls holds the moves that are under way,  *)
(* each with its position in the method and its local variables; steps     *)
(* counts the calls of a sequence.                                         *)
(*                                                                         *)
(* A document id is a number 1..NumIds.  A parent reference is a document  *)
(* id, Null (a stored null) or Undefined (no parentId field).  A requested *)
(* sortId is a JavaScript number; it is represented by twice its value, so *)
(* that halves (1.5 is 3) exist and Math.floor does something.             *)
(***************************************************************************)
EXTENDS Integers, Sequences, FiniteSets, TLC

VARIABLES store, prev, op, arg, err, result, calls, steps

vars == <<store, prev, op, arg, err, result, calls, steps>>

\* ---------------------------------------------------------------- bounds
NumIds == 3
MaxPos == 4
MaxNodes == 2
MaxSteps == 2

\* ------------------------------------------------------- representation
Ids == 1..NumIds
Null == 0
Undefined == 0 - 1
ParentRefs == {Undefined, Null} \cup Ids

DomainEnum == {"ADMIN", "WORKSHOP"}
StructuralSubtypeEnum == {"HEADER", "NAV", "FOOTER"}
StateEnum == {"FULL", "RELAXED", "COMPACT"}

\* The numbers a caller can send as sortId, doubled: -0.5, 0, 0.5, ..., MaxPos
SortInputs == (0 - 1)..(2 * MaxPos)

\* ------------------------------------------------------ pure functions
MathMax(a, b) == IF a >= b THEN a ELSE b

\* Math.floor of the number whose double is h
MathFloor(h) == h \div 2

\* JavaScript truthiness of a parent reference (an id string is truthy)
Truthy(p) == p \notin {Undefined, Null}

\* faulty variant: the floor without the lower limit of 1
NormalizePositionNoMax(h) == MathFloor(h)

\* requestedPosition = Math.max(1, Math.floor(updateItem.sortId))
NormalizePosition(h) == MathMax(1, MathFloor(h))

\* if (requestedPosition > siblings.length + 1) requestedPosition = siblings.length + 1
ClampPosition(requestedPosition, n) ==
  IF requestedPosition > n + 1 THEN n + 1 ELSE requestedPosition

\* parentChanged = existing.parentId !== updateItem.parentId
ParentChanged(existing, updateItem) == existing.parentId # updateItem.parentId

\* faulty variant: the sibling filter leaves archived documents out
buildSiblingFilterNotArchived(existing, parentId, excludeId, j, doc) ==
  /\ j # excludeId
  /\ ~doc.archived
  /\ doc.domain = existing.domain
  /\ doc.structuralSubtype = existing.structuralSubtype
  /\ doc.state = existing.state
  /\ IF Truthy(parentId)
       THEN doc.parentId = parentId
       ELSE doc.parentId \in {Undefined, Null}

\* faulty variant: the root filter matches an absent parentId only, not null
buildSiblingFilterAbsentOnly(existing, parentId, excludeId, j, doc) ==
  /\ j # excludeId
  /\ doc.domain = existing.domain
  /\ doc.structuralSubtype = existing.structuralSubtype
  /\ doc.state = existing.state
  /\ IF Truthy(parentId)
       THEN doc.parentId = parentId
       ELSE doc.parentId = Undefined

\* faulty variant: the filter matches on the parent alone, in any partition
buildSiblingFilterAnyPartition(existing, parentId, excludeId, j, doc) ==
  /\ j # excludeId
  /\ IF Truthy(parentId)
       THEN doc.parentId = parentId
       ELSE doc.parentId \in {Undefined, Null}

\* buildSiblingFilter(parentId, excludeId), applied to document j with fields doc
buildSiblingFilter(existing, parentId, excludeId, j, doc) ==
  /\ j # excludeId
  /\ doc.domain = existing.domain
  /\ doc.structuralSubtype = existing.structuralSubtype
  /\ doc.state = existing.state
  /\ IF Truthy(parentId)
       THEN doc.parentId = parentId
       ELSE doc.parentId \in {Undefined, Null}

\* the ids that find(buildSiblingFilter(parentId, excludeId)) returns
FindSiblings(st, existing, parentId, excludeId) ==
  {j \in DOMAIN st : buildSiblingFilter(existing, parentId, excludeId, j, st[j])}

\* .sort({ sortId: 1 }): every order of S ascending by sortId; documents with
\* equal sortId come in storage order, which is any order
SortBySortId(st, S) ==
  {s \in [1..Cardinality(S) -> S] :
     /\ \A i, j \in 1..Cardinality(S) : i # j => s[i] # s[j]
     /\ \A i, j \in 1..Cardinality(S) : i < j => st[s[i]].sortId <= st[s[j]].sortId}

\* bulkWrite of updateOne { _id } $set { sortId }: ops is a sequence of
\* [id, sortId]; Model.bulkWrite runs no query middleware, so version stays
BulkWriteSortId(st, ops) ==
  [j \in DOMAIN st |->
     IF \E k \in 1..Len(ops) : ops[k].id = j
       THEN LET k == CHOOSE k \in 1..Len(ops) :
                       /\ ops[k].id = j
                       /\ \A m \in 1..Len(ops) : ops[m].id = j => m <= k
            IN [st[j] EXCEPT !.sortId = ops[k].sortId]
       ELSE st[j]]

\* faulty variant: the array index itself, without the + 1
BulkOldZeroBased(oldSiblings) ==
  [idx \in 1..Len(oldSiblings) |-> [id |-> oldSiblings[idx], sortId |-> idx - 1]]

\* phase 1: oldSiblings.map((doc, idx) => updateOne sortId idx + 1)
BulkOld(oldSiblings) ==
  [idx \in 1..Len(oldSiblings) |-> [id |-> oldSiblings[idx], sortId |-> idx]]

\* faulty variant: the walk never reserves the requested slot
RECURSIVE SiblingWalkNoReserve(_, _, _, _, _, _)
SiblingWalkNoReserve(st, siblings, k, runningIndex, requestedPosition, bulkOps) ==
  IF k > Len(siblings) THEN bulkOps
  ELSE LET ops == IF st[siblings[k]].sortId # runningIndex
                    THEN Append(bulkOps, [id |-> siblings[k], sortId |-> runningIndex])
                    ELSE bulkOps
       IN SiblingWalkNoReserve(st, siblings, k + 1, runningIndex + 1,
                               requestedPosition, ops)

\* faulty variant: the slot is reserved after the sibling standing on it was numbered
RECURSIVE SiblingWalkLate(_, _, _, _, _, _)
SiblingWalkLate(st, siblings, k, runningIndex, requestedPosition, bulkOps) ==
  IF k > Len(siblings) THEN bulkOps
  ELSE LET ops == IF st[siblings[k]].sortId # runningIndex
                    THEN Append(bulkOps, [id |-> siblings[k], sortId |-> runningIndex])
                    ELSE bulkOps
           ri == IF runningIndex = requestedPosition
                   THEN runningIndex + 1 ELSE runningIndex
       IN SiblingWalkLate(st, siblings, k + 1, ri + 1, requestedPosition, ops)

\* faulty variant: every sibling is queued, in place or not
RECURSIVE SiblingWalkAll(_, _, _, _, _, _)
SiblingWalkAll(st, siblings, k, runningIndex, requestedPosition, bulkOps) ==
  IF k > Len(siblings) THEN bulkOps
  ELSE LET ri == IF runningIndex = requestedPosition
                   THEN runningIndex + 1 ELSE runningIndex
       IN SiblingWalkAll(st, siblings, k + 1, ri + 1, requestedPosition,
                         Append(bulkOps, [id |-> siblings[k], sortId |-> ri]))

\* phase 2: the for-loop over siblings with runningIndex, from sibling k on
RECURSIVE SiblingWalk(_, _, _, _, _, _)
SiblingWalk(st, siblings, k, runningIndex, requestedPosition, bulkOps) ==
  IF k > Len(siblings) THEN bulkOps
  ELSE LET ri == IF runningIndex = requestedPosition
                   THEN runningIndex + 1 ELSE runningIndex
           ops == IF st[siblings[k]].sortId # ri
                    THEN Append(bulkOps, [id |-> siblings[k], sortId |-> ri])
                    ELSE bulkOps
       IN SiblingWalk(st, siblings, k + 1, ri + 1, requestedPosition, ops)

BulkOps(st, siblings, requestedPosition) ==
  SiblingWalk(st, siblings, 1, 1, requestedPosition, <<>>)

\* faulty variant: the commit writes the parent but not the position
CommitMovedNoSortId(st, id, targetParentId, requestedPosition) ==
  [st EXCEPT ![id] =
     [@ EXCEPT !.parentId = IF Truthy(targetParentId) THEN targetParentId ELSE Undefined,
               !.version = @ + 1]]

\* faulty variant: without a target parent the parent reference is left alone
CommitMovedStaleParent(st, id, targetParentId, requestedPosition) ==
  [st EXCEPT ![id] =
     [@ EXCEPT !.parentId = IF Truthy(targetParentId) THEN targetParentId ELSE @,
               !.sortId = requestedPosition,
               !.version = @ + 1]]

\* phase 3: findByIdAndUpdate of the moved item ($set / $unset parentId, $set
\* sortId); the findOneAndUpdate hook adds $inc version
CommitMoved(st, id, targetParentId, requestedPosition) ==
  [st EXCEPT ![id] =
     [@ EXCEPT !.parentId = IF Truthy(targetParentId) THEN targetParentId ELSE Undefined,
               !.sortId = requestedPosition,
               !.version = @ + 1]]

\* ------------------------------------------------------------ the store
\* the documents of st in the sibling group of partition (d, s, t) under parent p
Group(st, d, s, t, p) ==
  {j \in DOMAIN st :
     /\ st[j].domain = d /\ st[j].structuralSubtype = s /\ st[j].state = t
     /\ IF Truthy(p) THEN st[j].parentId = p ELSE ~Truthy(st[j].parentId)}

GroupOf(st, j) ==
  Group(st, st[j].domain, st[j].structuralSubtype, st[j].state, st[j].parentId)

\* sortId values of S are exactly 1..N, no duplicates
DenseSet(st, S) ==
  /\ \A j \in S : st[j].sortId \in 1..Cardinality(S)
  /\ \A i, j \in S : i # j => st[i].sortId # st[j].sortId

DenseStore(st) == \A j \in DOMAIN st : DenseSet(st, GroupOf(st, j))

\* partitions the initial stores draw from: two that differ in state only
\* and one that differs in domain and subtype
PartitionKeys ==
  { <<"ADMIN", "NAV", "FULL">>, <<"ADMIN", "NAV", "COMPACT">>,
    <<"WORKSHOP", "HEADER", "FULL">> }

\* the partition of each document in an initial store: document 1 lies in any
\* of the partitions, the others in the first
PartitionMaps ==
  {part \in [Ids -> PartitionKeys] :
     \A i \in Ids : i # 1 => part[i] = <<"ADMIN", "NAV", "FULL">>}

\* a store whose sibling groups are all dense: documents `present`, partition
\* and parent per document, and within a group the order of ids, ascending
\* (up = TRUE) or descending
MakeStore(present, part, par, up) ==
  [j \in present |->
     LET same == {i \in present :
                    /\ part[i] = part[j]
                    /\ IF Truthy(par[j]) THEN par[i] = par[j] ELSE ~Truthy(par[i])}
         before == {i \in same : IF up THEN i < j ELSE i > j}
     IN [domain |-> part[j][1], structuralSubtype |-> part[j][2],
         state |-> part[j][3], parentId |-> par[j],
         sortId |-> Cardinality(before) + 1,
         archived |-> FALSE, version |-> 1]]

\* the sets of documents an initial store holds: all, or all but the last
Presents == {Ids, Ids \ {NumIds}}

NoArg == [id |-> 0, sortId |-> 0, parentId |-> Undefined]

\* nothing returned yet, no move under way, no call made
NoResult == << >>

NoCalls == << >>

Idle == result = NoResult /\ calls = NoCalls /\ steps = 0

InitDense ==
  /\ \E present \in Presents, part \in PartitionMaps,
        par \in [Ids -> ParentRefs], up \in BOOLEAN :
       store = MakeStore(present, part, par, up)
  /\ prev = store
  /\ op = "init"
  /\ arg = NoArg
  /\ err = "none"
  /\ Idle

\* ------------------------------------------------------------- move
\* faulty variant: the lookup result is used unchecked, and a missing document
\* surfaces as a TypeError on the first field read
findOneUnchecked(st, id) == IF id \in DOMAIN st THEN "none" ELSE "TypeError"

\* MenuService.findOne(id): the error it throws, "none" when the document exists
findOne(st, id) == IF id \in DOMAIN st THEN "none" ELSE "NotFound"

\* MenuService.reorderMenuItems(updateItem) of the bulk-write service, for an
\* existing document and run alone from lookup to commit: the stores it can
\* leave (more than one only when a sort meets equal sortIds)
MoveOutcomes(st, updateItem) ==
  LET existing == st[updateItem.id]
      requestedPosition0 == NormalizePosition(updateItem.sortId)
      parentChanged == ParentChanged(existing, updateItem)
      targetParentId == updateItem.parentId
      oldOrders == IF parentChanged
                     THEN SortBySortId(st,
                            FindSiblings(st, existing, existing.parentId, updateItem.id))
                     ELSE {<<>>}
      AfterOld(oldSiblings) == BulkWriteSortId(st, BulkOld(oldSiblings))
      Insert(s1, siblings) ==
        LET requestedPosition == ClampPosition(requestedPosition0, Len(siblings))
            s2 == BulkWriteSortId(s1, BulkOps(s1, siblings, requestedPosition))
        IN CommitMoved(s2, updateItem.id, targetParentId, requestedPosition)
  IN UNION { { Insert(AfterOld(oldSiblings), siblings) :
                 siblings \in SortBySortId(AfterOld(oldSiblings),
                                FindSiblings(AfterOld(oldSiblings), existing,
                                             targetParentId, updateItem.id)) } :
             oldSiblings \in oldOrders }

reorderMenuItems(updateItem) ==
  /\ prev' = store
  /\ op' = "move"
  /\ arg' = updateItem
  /\ err' = findOne(store, updateItem.id)
  /\ IF findOne(store, updateItem.id) # "none"
       THEN store' = store
       ELSE store' \in MoveOutcomes(store, updateItem)

\* one call per behaviour: the call's inputs are any id, number and parent
Move ==
  /\ op = "init"
  /\ \E id \in Ids, h \in SortInputs, p \in ParentRefs :
       reorderMenuItems([id |-> id, sortId |-> h, parentId |-> p])
  /\ UNCHANGED <<result, calls, steps>>

NextMove == Move

SpecMove == InitDense /\ [][NextMove]_vars

\* ------------------------------------------- flat and tree reorder
\* the partition of a bulk reorder call: the first partition, or the one that
\* differs from it in state only
CallPartitions == { <<"ADMIN", "NAV", "FULL">>, <<"ADMIN", "NAV", "COMPACT">> }

\* parentId of a HierarchicalReorderItem: not supplied, null, or the id of document 1
TreeParentRefs == {Undefined, Null, 1}

\* a HierarchicalReorderItem without its children
TreeLabels == [id : Ids, sortId : 1..MaxNodes, parentId : TreeParentRefs]

\* the nesting depths of n nodes listed depth-first: the first is a top-level
\* node and a node lies at most one level below the node listed before it
DepthMaps(n) ==
  {depth \in [1..n -> 0..(MaxNodes - 1)] :
     /\ n >= 1 => depth[1] = 0
     /\ \A k \in 1..(n - 1) : depth[k + 1] <= depth[k] + 1}

\* the HierarchicalReorderItem[] whose nodes lo..hi of the depth-first listing
\* (labels, depth) are the nodes at depth d with the nodes nested below them
RECURSIVE ForestOf(_, _, _, _, _)
ForestOf(labels, depth, lo, hi, d) ==
  IF lo > hi THEN << >>
  ELSE LET later == {k \in (lo + 1)..hi : depth[k] = d}
           next == IF later = {} THEN hi + 1
                   ELSE CHOOSE k \in later : \A m \in later : k <= m
       IN << [id |-> labels[lo].id, sortId |-> labels[lo].sortId,
              parentId |-> labels[lo].parentId,
              children |-> ForestOf(labels, depth, lo + 1, next - 1, d + 1)] >>
            \o ForestOf(labels, depth, next, hi, d)

\* itemIds of the flat reorder: up to MaxNodes ids, repeats allowed
FlatInputs == UNION { [1..n -> Ids] : n \in 0..MaxNodes }

\* the parents of the documents of an initial store of the bulk operations:
\* all roots without parentId, all roots with a null parentId, or document 1
\* a root and the others its children
BulkParentMaps ==
  { [i \in Ids |-> Undefined], [i \in Ids |-> Null],
    [i \in Ids |-> IF i = 1 THEN Undefined ELSE 1] }

\* the partition of each document in an initial store of the bulk operations:
\* document 1 in either partition a call can name, the others in the first
BulkPartitionMaps ==
  {part \in [Ids -> CallPartitions] :
     \A i \in Ids : i # 1 => part[i] = <<"ADMIN", "NAV", "FULL">>}

InitBulk ==
  /\ \E present \in Presents, part \in BulkPartitionMaps, par \in BulkParentMaps :
       store = MakeStore(present, part, par, TRUE)
  /\ prev = store
  /\ op = "init"
  /\ arg = NoArg
  /\ err = "none"
  /\ Idle

\* documents of st in partition (d, s, t)
InPartition(st, d, s, t) ==
  {j \in DOMAIN st :
     st[j].domain = d /\ st[j].structuralSubtype = s /\ st[j].state = t}

\* bulkWrite(itemIds.map((id, index) => updateOne filter { _id, domain,
\* structuralSubtype, state } update { sortId: index })): index counts from 0
FlatUpdates(itemIds) ==
  [k \in 1..Len(itemIds) |-> [id |-> itemIds[k], sortId |-> k - 1]]

\* the updates applied in order; one whose filter matches no document does nothing
RECURSIVE ApplyFlat(_, _, _, _, _, _)
ApplyFlat(st, d, s, t, updates, k) ==
  IF k > Len(updates) THEN st
  ELSE LET u == updates[k]
           st2 == IF u.id \in InPartition(st, d, s, t)
                    THEN [st EXCEPT ![u.id].sortId = u.sortId]
                    ELSE st
       IN ApplyFlat(st2, d, s, t, updates, k + 1)

\* MenuService.reorderMenuItems(domain, structuralSubtype, state, itemIds) of
\* the bulk service
reorderFlat(d, s, t, itemIds) ==
  /\ prev' = store
  /\ op' = "flat"
  /\ arg' = [domain |-> d, structuralSubtype |-> s, state |-> t, itemIds |-> itemIds]
  /\ err' = "none"
  /\ store' = ApplyFlat(store, d, s, t, FlatUpdates(itemIds), 1)

\* faulty variant: the ids of the top-level items only
extractAllIdsTopLevel(items) == [k \in 1..Len(items) |-> items[k].id]

\* extractAllIds(items): the ids of the tree, depth-first
RECURSIVE extractAllIds(_)
extractAllIds(items) ==
  IF items = << >> THEN << >>
  ELSE << Head(items).id >> \o extractAllIds(Head(items).children)
         \o extractAllIds(Tail(items))

\* faulty variant: updates for the top-level items only
buildHierarchicalUpdatesTopLevel(items) ==
  [k \in 1..Len(items) |->
     [id |-> items[k].id, sortId |-> items[k].sortId,
      setParent |-> items[k].parentId # Undefined,
      parentId |-> IF Truthy(items[k].parentId) THEN items[k].parentId ELSE Null]]

\* faulty variant: parentId is written for every node, null when not supplied
RECURSIVE buildHierarchicalUpdatesAlwaysParent(_)
buildHierarchicalUpdatesAlwaysParent(items) ==
  IF items = << >> THEN << >>
  ELSE LET item == Head(items)
       IN << [id |-> item.id, sortId |-> item.sortId,
              setParent |-> TRUE,
              parentId |-> IF Truthy(item.parentId) THEN item.parentId ELSE Null] >>
            \o buildHierarchicalUpdatesAlwaysParent(item.children)
            \o buildHierarchicalUpdatesAlwaysParent(Tail(items))

\* buildHierarchicalUpdates(items): one update per node, depth-first; parentId
\* is written when the node supplies one, null when it is falsy
RECURSIVE buildHierarchicalUpdates(_)
buildHierarchicalUpdates(items) ==
  IF items = << >> THEN << >>
  ELSE LET item == Head(items)
       IN << [id |-> item.id, sortId |-> item.sortId,
              setParent |-> item.parentId # Undefined,
              parentId |-> IF Truthy(item.parentId) THEN item.parentId ELSE Null] >>
            \o buildHierarchicalUpdates(item.children)
            \o buildHierarchicalUpdates(Tail(items))

\* bulkWrite(updates): updateOne filter { _id } update { sortId, lastUpdated,
\* parentId? }, applied in order
RECURSIVE ApplyHierarchical(_, _, _)
ApplyHierarchical(st, updates, k) ==
  IF k > Len(updates) THEN st
  ELSE LET u == updates[k]
           st2 == IF u.id \in DOMAIN st
                    THEN [st EXCEPT ![u.id] =
                            [@ EXCEPT !.sortId = u.sortId,
                                      !.parentId = IF u.setParent THEN u.parentId ELSE @]]
                    ELSE st
       IN ApplyHierarchical(st2, updates, k + 1)

\* find({ _id: { $in: allItemIds }, domain, structuralSubtype, state }).length
ExistingCount(st, d, s, t, allItemIds) ==
  Cardinality({j \in InPartition(st, d, s, t) :
                 \E k \in 1..Len(allItemIds) : allItemIds[k] = j})

\* MenuService.reorderMenuItemsHierarchical(domain, structuralSubtype, state, items)
reorderMenuItemsHierarchical(d, s, t, items) ==
  /\ prev' = store
  /\ op' = "tree"
  /\ arg' = [domain |-> d, structuralSubtype |-> s, state |-> t, items |-> items]
  /\ LET allItemIds == extractAllIds(items)
     IN IF ExistingCount(store, d, s, t, allItemIds) # Len(allItemIds)
          THEN /\ err' = "BadRequest"
               /\ store' = store
          ELSE /\ err' = "none"
               /\ store' = ApplyHierarchical(store, buildHierarchicalUpdates(items), 1)

ReorderFlat ==
  /\ op = "init"
  /\ \E k \in CallPartitions, itemIds \in FlatInputs :
       reorderFlat(k[1], k[2], k[3], itemIds)
  /\ UNCHANGED <<result, calls, steps>>

ReorderTree ==
  /\ op = "init"
  /\ \E k \in CallPartitions, n \in 0..MaxNodes :
       \E labels \in [1..n -> TreeLabels], depth \in DepthMaps(n) :
         reorderMenuItemsHierarchical(k[1], k[2], k[3],
                                      ForestOf(labels, depth, 1, n, 0))
  /\ UNCHANGED <<result, calls, steps>>

NextBulk == ReorderFlat \/ ReorderTree

SpecBulk == InitBulk /\ [][NextBulk]_vars

\* ---------------------------------------------------- claims about move
\* a move that completed
Moved == op = "move" /\ err = "none"

\* the moved document as it was before the move
MovedDoc == prev[arg.id]

\* two parent references denote the same sibling group
SameGroupRef(p, q) == IF Truthy(p) THEN p = q ELSE ~Truthy(q)

\* the moved document's source and destination sibling groups, in store st
SourceGroup(st) ==
  Group(st, MovedDoc.domain, MovedDoc.structuralSubtype, MovedDoc.state,
        MovedDoc.parentId)

DestGroup(st) ==
  Group(st, MovedDoc.domain, MovedDoc.structuralSubtype, MovedDoc.state,
        arg.parentId)

PreDense == DenseSet(prev, SourceGroup(prev)) /\ DenseSet(prev, DestGroup(prev))

CrossGroupMove == Moved /\ ~SameGroupRef(MovedDoc.parentId, arg.parentId)

SameGroupMove == Moved /\ SameGroupRef(MovedDoc.parentId, arg.parentId)

\* the requested position: the integer part of the number sent
Requested == CHOOSE n \in (0 - 1)..MaxPos : 2 * n <= arg.sortId /\ arg.sortId < 2 * n + 2

\* p saturated into 1..n+1
Saturate(p, n) == IF p < 1 THEN 1 ELSE IF p > n + 1 THEN n + 1 ELSE p

\* the destination siblings of the moved document before the move
DestSiblings == DestGroup(prev) \ {arg.id}

\* position of j among the documents S by ascending sortId in st
Rank(st, S, j) == 1 + Cardinality({i \in S : st[i].sortId < st[j].sortId})

\* C1: after a completed move from a store whose affected groups are dense,
\* the former group and the destination group (the moved document in it)
\* both have sortIds exactly 1..N without duplicates
C1_MoveKeepsGroupsDense ==
  (Moved /\ PreDense) =>
    /\ arg.id \in DestGroup(store)
    /\ DenseSet(store, SourceGroup(store))
    /\ DenseSet(store, DestGroup(store))

C1_Witness ==
  /\ CrossGroupMove /\ PreDense
  /\ Cardinality(SourceGroup(store)) >= 1
  /\ Cardinality(DestGroup(store)) >= 2

\* C2: a move to a different group leaves the source group with its other
\* M-1 documents numbered 1..M-1 in their previous order, and the destination
\* with K+1 documents numbered 1..K+1, the moved one at the clamped position
C2_CrossGroupMove ==
  (CrossGroupMove /\ PreDense) =>
    LET K == Cardinality(DestGroup(prev))
        rest == SourceGroup(prev) \ {arg.id}
    IN /\ SourceGroup(store) = rest
       /\ \A j \in rest : store[j].sortId = Rank(prev, rest, j)
       /\ DestGroup(store) = DestGroup(prev) \cup {arg.id}
       /\ Cardinality(DestGroup(store)) = K + 1
       /\ {store[j].sortId : j \in DestGroup(store)} = 1..(K + 1)
       /\ store[arg.id].sortId = Saturate(Requested, K)

\* d leaves the root group {x:1, d:2} for an empty group: root {x:1}, destination {d:1}
C2_Witness ==
  /\ CrossGroupMove /\ PreDense
  /\ ~Truthy(MovedDoc.parentId)
  /\ Cardinality(SourceGroup(prev)) = 2
  /\ MovedDoc.sortId = 2
  /\ DestGroup(prev) = {}
  /\ \E x \in SourceGroup(store) : SourceGroup(store) = {x} /\ store[x].sortId = 1
  /\ DestGroup(store) = {arg.id}
  /\ store[arg.id].sortId = 1

\* C3 as stated: in a same-group move to position P <= N every other document
\* that stood at P or after it stands one position further down afterwards
C3_InsertionShiftAsStated ==
  (SameGroupMove /\ PreDense) =>
    LET N == Cardinality(SourceGroup(prev))
    IN Requested \in 1..N =>
         \A j \in SourceGroup(prev) \ {arg.id} :
           prev[j].sortId >= Requested => store[j].sortId = prev[j].sortId + 1

\* C3 amended: in a same-group move the document ends at the clamped position
\* P; moving towards the front, the documents that stood at P..old-1 stand one
\* position further down; moving towards the back, those that stood at
\* old+1..P stand one position further up; every other document keeps its place
C3_SameGroupShift ==
  (SameGroupMove /\ PreDense) =>
    LET N == Cardinality(SourceGroup(prev))
        old == MovedDoc.sortId
        P == Saturate(Requested, N - 1)
    IN /\ store[arg.id].sortId = P
       /\ \A j \in SourceGroup(prev) \ {arg.id} :
            store[j].sortId =
              IF P < old /\ prev[j].sortId >= P /\ prev[j].sortId < old
                THEN prev[j].sortId + 1
              ELSE IF P > old /\ prev[j].sortId > old /\ prev[j].sortId <= P
                THEN prev[j].sortId - 1
              ELSE prev[j].sortId

\* a move towards the back past one sibling, with a sibling behind the target
C3_Witness ==
  /\ SameGroupMove /\ PreDense
  /\ Cardinality(SourceGroup(prev)) = 3
  /\ MovedDoc.sortId = 1
  /\ Requested = 2
  /\ store[arg.id].sortId = 2

\* C4: the moved document's sortId is the clamped requested position and the
\* other documents of the destination group keep their relative order
C4_MovedAtClampedPosition ==
  (Moved /\ PreDense) =>
    /\ store[arg.id].sortId = Saturate(Requested, Cardinality(DestSiblings))
    /\ \A i, j \in DestSiblings :
         prev[i].sortId < prev[j].sortId => store[i].sortId < store[j].sortId

\* move(b, 1) in {a:1, b:2, c:3} yields {b:1, a:2, c:3}
C4_Witness ==
  /\ SameGroupMove
  /\ Requested = 1
  /\ \E a, c \in DOMAIN prev :
       /\ SourceGroup(prev) = {a, arg.id, c}
       /\ prev[a].sortId = 1 /\ MovedDoc.sortId = 2 /\ prev[c].sortId = 3
       /\ store[arg.id].sortId = 1 /\ store[a].sortId = 2 /\ store[c].sortId = 3

\* C5: a requested position <= 0 gives the store that position 1 gives, one
\* above N+1 gives the store that N+1 gives (N the destination siblings
\* without the moved document), and no position is rejected
C5_ClampingSaturates ==
  (op = "move" /\ arg.id \in DOMAIN prev) =>
    /\ err = "none"
    /\ Requested <= 0 => store \in MoveOutcomes(prev, [arg EXCEPT !.sortId = 2])
    /\ Requested > Cardinality(DestSiblings) + 1 =>
         store \in MoveOutcomes(prev,
                     [arg EXCEPT !.sortId = 2 * (Cardinality(DestSiblings) + 1)])

C5_Witness ==
  /\ Moved
  /\ Requested <= 0
  /\ Cardinality(DestSiblings) = 2

\* C6: move of an id that resolves to no document fails with NotFound and
\* writes nothing
C6_MoveMissingIsNotFound ==
  (op = "move" /\ arg.id \notin DOMAIN prev) =>
    /\ err = "NotFound"
    /\ store = prev

C6_Witness ==
  /\ op = "move"
  /\ arg.id \notin DOMAIN prev
  /\ prev # << >>
  /\ err = "NotFound"

\* --------------------------------- claims about flat and tree reorder
\* the ids a tree references, at any depth
RECURSIVE TreeIds(_)
TreeIds(items) ==
  IF items = << >> THEN {}
  ELSE {Head(items).id} \cup TreeIds(Head(items).children) \cup TreeIds(Tail(items))

\* how many nodes of the tree carry id i
RECURSIVE Occurrences(_, _)
Occurrences(items, i) ==
  IF items = << >> THEN 0
  ELSE (IF Head(items).id = i THEN 1 ELSE 0)
         + Occurrences(Head(items).children, i) + Occurrences(Tail(items), i)

\* the sortIds the tree supplies for id i
RECURSIVE SuppliedSortIds(_, _)
SuppliedSortIds(items, i) ==
  IF items = << >> THEN {}
  ELSE (IF Head(items).id = i THEN {Head(items).sortId} ELSE {})
         \cup SuppliedSortIds(Head(items).children, i)
         \cup SuppliedSortIds(Tail(items), i)

\* the ids of nodes that are some node's children
RECURSIVE NestedIds(_)
NestedIds(items) ==
  IF items = << >> THEN {}
  ELSE TreeIds(Head(items).children) \cup NestedIds(Tail(items))

CallPartition(st) == InPartition(st, arg.domain, arg.structuralSubtype, arg.state)

TreeAccepted == op = "tree" /\ err = "none"

\* itemIds lists every document of one sibling group of the call's partition once
FlatOfOneGroup ==
  /\ op = "flat"
  /\ Len(arg.itemIds) >= 1
  /\ \A a, b \in 1..Len(arg.itemIds) : a # b => arg.itemIds[a] # arg.itemIds[b]
  /\ \E j \in CallPartition(prev) :
       GroupOf(prev, j) = {arg.itemIds[k] : k \in 1..Len(arg.itemIds)}

\* C7: after a flat reorder with a permutation of one sibling group the group's
\* sortIds are exactly 1..N and ascending sortId order is the supplied order
C7_FlatGivesDenseOrder ==
  FlatOfOneGroup =>
    /\ DenseSet(store, {arg.itemIds[k] : k \in 1..Len(arg.itemIds)})
    /\ \A a, b \in 1..Len(arg.itemIds) :
         a < b => store[arg.itemIds[a]].sortId < store[arg.itemIds[b]].sortId

\* C8 as stated: after an accepted tree reorder every sibling group of the
\* partition has sortIds exactly 1..N
C8_TreeLeavesGroupsDense ==
  TreeAccepted => \A j \in CallPartition(store) : DenseSet(store, GroupOf(store, j))

\* C8 amended: after an accepted tree reorder every sibling group of the
\* partition whose members are all referenced by the tree, with supplied
\* sortIds that are exactly 1..N, has sortIds exactly 1..N
C8_SuppliedDenseGroupsAreDense ==
  TreeAccepted =>
    \A j \in CallPartition(store) :
      LET G == GroupOf(store, j)
      IN (/\ G \subseteq TreeIds(arg.items)
          /\ UNION {SuppliedSortIds(arg.items, i) : i \in G} = 1..Cardinality(G))
           => DenseSet(store, G)

\* a group of two, one of them a nested node, renumbered by the call
C8_Witness ==
  /\ TreeAccepted
  /\ \E j \in CallPartition(store) :
       LET G == GroupOf(store, j)
       IN /\ Cardinality(G) = 2
          /\ G \subseteq TreeIds(arg.items)
          /\ G \cap NestedIds(arg.items) # {}
          /\ UNION {SuppliedSortIds(arg.items, i) : i \in G} = 1..2
          /\ \E i \in G : store[i].sortId # prev[i].sortId

\* C9: a tree that omits an id present in the partition is rejected with
\* BadRequest and nothing is written
C9_OmittedIdRejected ==
  (op = "tree" /\ CallPartition(prev) \ TreeIds(arg.items) # {}) =>
    /\ err = "BadRequest"
    /\ store = prev

TreeUnresolved == TreeIds(arg.items) \ CallPartition(prev) # {}

TreeRepeated == \E i \in TreeIds(arg.items) : Occurrences(arg.items, i) > 1

HierarchyKeys == PartitionKeys \cup { <<"ADMIN", "FOOTER", "FULL">> }

\* documents 1 and 2 lie in any of these partitions, the others in the first
CrudPartitionMaps ==
  {part \in [Ids -> HierarchyKeys] :
     \A i \in Ids : i > 2 => part[i] = <<"ADMIN", "NAV", "FULL">>}

\* the store st with the archived flag of each document set from arch
WithArchived(st, arch) ==
  [j \in DOMAIN st |-> [st[j] EXCEPT !.archived = arch[j]]]

InitCrud ==
  /\ \E present \in Presents, part \in CrudPartitionMaps,
        par \in BulkParentMaps, arch \in [Ids -> BOOLEAN] :
       store = WithArchived(MakeStore(present, part, par, TRUE), arch)
  /\ prev = store
  /\ op = "init"
  /\ arg = NoArg
  /\ err = "none"
  /\ Idle

\* CreateMenuItemDto, the fields that matter here: the partition, a whole
\* sortId >= 0 (@Min(0)), an optional parentId and the optional archived flag
\* (absent is the schema default false)
CreateDtos ==
  [key : HierarchyKeys, sortId : 0..MaxPos, parentId : ParentRefs,
   archived : BOOLEAN]

\* new this.menuItemModel({ ...createMenuItemDto }): the dto's fields and the
\* schema default version 1
NewDocument(dto) ==
  [domain |-> dto.key[1], structuralSubtype |-> dto.key[2], state |-> dto.key[3],
   parentId |-> dto.parentId, sortId |-> dto.sortId,
   archived |-> dto.archived, version |-> 1]

\* MenuService.create(createMenuItemDto): save() inserts the document under
\* the fresh _id id; no index but _id is unique, so no duplicate-key error
\* (code 11000, mapped to Conflict) can arise
create(id, dto) ==
  /\ id \notin DOMAIN store
  /\ prev' = store
  /\ op' = "create"
  /\ arg' = [id |-> id, dto |-> dto]
  /\ err' = "none"
  /\ result' = NewDocument(dto)
  /\ store' = [j \in DOMAIN store \cup {id} |->
                 IF j = id THEN NewDocument(dto) ELSE store[j]]

\* UpdateMenuItemDto (every field optional): the record's fields in `fields`
\* are the ones the caller sent
NoFields ==
  [fields |-> {}, sortId |-> 0, parentId |-> Null, archived |-> FALSE,
   state |-> "FULL"]

UpdateDtos ==
  {NoFields}
    \cup {[NoFields EXCEPT !.fields = {"sortId"}, !.sortId = n] : n \in 0..MaxPos}
    \cup {[NoFields EXCEPT !.fields = {"parentId"}, !.parentId = p] :
            p \in {Null} \cup Ids}
    \cup {[NoFields EXCEPT !.fields = {"archived"}, !.archived = b] : b \in BOOLEAN}
    \cup {[NoFields EXCEPT !.fields = {"state"}, !.state = t] :
            t \in {"FULL", "COMPACT"}}
    \cup {[NoFields EXCEPT !.fields = {"sortId", "parentId"},
                           !.sortId = n, !.parentId = p] :
            n \in 1..MaxNodes, p \in {Null} \cup Ids}

\* findByIdAndUpdate(id, { ...updateMenuItemDto, lastUpdated }) applied to doc:
\* the fields sent are set and the findOneAndUpdate hook adds $inc version
FindByIdAndUpdate(doc, dto) ==
  [doc EXCEPT
     !.sortId = IF "sortId" \in dto.fields THEN dto.sortId ELSE @,
     !.parentId = IF "parentId" \in dto.fields THEN dto.parentId ELSE @,
     !.archived = IF "archived" \in dto.fields THEN dto.archived ELSE @,
     !.state = IF "state" \in dto.fields THEN dto.state ELSE @,
     !.version = @ + 1]

\* faulty variant: an id that resolves to nothing is created (an upsert)
updateUpsert(name, id, dto) ==
  /\ prev' = store
  /\ op' = name
  /\ arg' = [id |-> id, dto |-> dto]
  /\ err' = "none"
  /\ result' = NoResult
  /\ store' = [j \in DOMAIN store \cup {id} |->
                 IF j # id THEN store[j]
                 ELSE IF id \in DOMAIN store THEN FindByIdAndUpdate(store[id], dto)
                 ELSE [domain |-> "ADMIN", structuralSubtype |-> "NAV",
                       state |-> dto.state, parentId |-> dto.parentId,
                       sortId |-> dto.sortId, archived |-> dto.archived,
                       version |-> 1]]

\* faulty variant: the siblings the document leaves behind are renumbered
updateAsClosingGap(name, id, dto) ==
  /\ prev' = store
  /\ op' = name
  /\ arg' = [id |-> id, dto |-> dto]
  /\ IF id \in DOMAIN store
       THEN /\ err' = "none"
            /\ store' = [j \in DOMAIN store |->
                           IF j = id THEN FindByIdAndUpdate(store[id], dto)
                           ELSE IF /\ j \in GroupOf(store, id)
                                   /\ store[j].sortId > store[id].sortId
                             THEN [store[j] EXCEPT !.sortId = @ - 1]
                           ELSE store[j]]
            /\ result' = FindByIdAndUpdate(store[id], dto)
       ELSE /\ err' = "NotFound"
            /\ store' = store
            /\ result' = NoResult

\* MenuService.update(id, updateMenuItemDto), called as `name`
updateAs(name, id, dto) ==
  /\ prev' = store
  /\ op' = name
  /\ arg' = [id |-> id, dto |-> dto]
  /\ IF id \in DOMAIN store
       THEN /\ err' = "none"
            /\ store' = [store EXCEPT ![id] = FindByIdAndUpdate(@, dto)]
            /\ result' = FindByIdAndUpdate(store[id], dto)
       ELSE /\ err' = "NotFound"
            /\ store' = store
            /\ result' = NoResult

update(id, dto) == updateAs("update", id, dto)

\* MenuService.archive(id) and unarchive(id): update(id, { archived })
archive(id) ==
  updateAs("archive", id, [NoFields EXCEPT !.fields = {"archived"}, !.archived = TRUE])

unarchive(id) ==
  updateAs("unarchive", id, [NoFields EXCEPT !.fields = {"archived"}, !.archived = FALSE])

\* faulty variant: the remaining siblings are renumbered after the delete
removeResequencing(id) ==
  /\ prev' = store
  /\ op' = "remove"
  /\ arg' = [id |-> id]
  /\ result' = NoResult
  /\ IF id \in DOMAIN store
       THEN /\ err' = "none"
            /\ store' = [j \in DOMAIN store \ {id} |->
                           IF j \in GroupOf(store, id) /\ store[j].sortId > store[id].sortId
                             THEN [store[j] EXCEPT !.sortId = @ - 1]
                             ELSE store[j]]
       ELSE /\ err' = "NotFound"
            /\ store' = store

\* MenuService.remove(id): findByIdAndDelete, NotFound when nothing was deleted
remove(id) ==
  /\ prev' = store
  /\ op' = "remove"
  /\ arg' = [id |-> id]
  /\ result' = NoResult
  /\ IF id \in DOMAIN store
       THEN /\ err' = "none"
            /\ store' = [j \in DOMAIN store \ {id} |-> store[j]]
       ELSE /\ err' = "NotFound"
            /\ store' = store

\* MenuService.findOne(id) as a call: the document, or NotFound
findOneCall(id) ==
  /\ prev' = store
  /\ op' = "findOne"
  /\ arg' = [id |-> id]
  /\ err' = findOne(store, id)
  /\ result' = IF findOne(store, id) = "none" THEN store[id] ELSE NoResult
  /\ store' = store

\* faulty variant: the archived filter is never added
ArchivedFilterNone(includeArchived, doc) == TRUE

\* if (!includeArchived) filter.archived = false
ArchivedFilter(includeArchived, doc) == includeArchived \/ ~doc.archived

\* MenuService.findByDomainStructuralSubtypeAndState(domain, structuralSubtype,
\* state, includeArchived): the ids of the documents it can return, in order
findByDomainStructuralSubtypeAndState(st, d, s, t, includeArchived) ==
  SortBySortId(st, {j \in InPartition(st, d, s, t) :
                      ArchivedFilter(includeArchived, st[j])})

findByGroupCall(d, s, t, includeArchived) ==
  /\ prev' = store
  /\ op' = "findByGroup"
  /\ arg' = [domain |-> d, structuralSubtype |-> s, state |-> t,
             includeArchived |-> includeArchived]
  /\ err' = "none"
  /\ result' \in findByDomainStructuralSubtypeAndState(store, d, s, t, includeArchived)
  /\ store' = store

\* the enum values in ascending string order, the order of an ascending sort
SubtypeOrder == << "FOOTER", "HEADER", "NAV" >>

StateOrder == << "COMPACT", "FULL", "RELAXED" >>

\* the position of value v in the order ord
OrderIndex(ord, v) == CHOOSE k \in 1..Len(ord) : ord[k] = v

\* document a does not come after document b under
\* .sort({ structuralSubtype: 1, state: 1, sortId: 1 })
ScanLeq(a, b) ==
  LET sa == OrderIndex(SubtypeOrder, a.structuralSubtype)
      sb == OrderIndex(SubtypeOrder, b.structuralSubtype)
      ta == OrderIndex(StateOrder, a.state)
      tb == OrderIndex(StateOrder, b.state)
  IN \/ sa < sb
     \/ sa = sb /\ ta < tb
     \/ sa = sb /\ ta = tb /\ a.sortId <= b.sortId

\* faulty variant: the scan is ordered by sortId alone
findByDomainBySortId(st, domain, includeArchived) ==
  SortBySortId(st, {j \in DOMAIN st :
                      st[j].domain = domain /\ ArchivedFilter(includeArchived, st[j])})

\* MenuService.findByDomain(domain, includeArchived): the scans it can return
findByDomain(st, domain, includeArchived) ==
  LET S == {j \in DOMAIN st :
              st[j].domain = domain /\ ArchivedFilter(includeArchived, st[j])}
  IN {m \in [1..Cardinality(S) -> S] :
        /\ \A i, j \in 1..Cardinality(S) : i # j => m[i] # m[j]
        /\ \A i, j \in 1..Cardinality(S) : i < j => ScanLeq(st[m[i]], st[m[j]])}

\* the object obj with property key set to value
SetProperty(obj, key, value) ==
  [x \in DOMAIN obj \cup {key} |-> IF x = key THEN value ELSE obj[x]]

\* menuItems.forEach(...) of getMenuHierarchy from item k on: structuralSubtypes
\* maps a subtype to { states }, states maps a state to the list of its items
RECURSIVE HierarchyForEach(_, _, _, _)
HierarchyForEach(st, menuItems, k, structuralSubtypes) ==
  IF k > Len(menuItems) THEN structuralSubtypes
  ELSE LET item == st[menuItems[k]]
           h1 == IF item.structuralSubtype \in DOMAIN structuralSubtypes
                   THEN structuralSubtypes
                   ELSE SetProperty(structuralSubtypes, item.structuralSubtype,
                                    [states |-> << >>])
           states1 == h1[item.structuralSubtype].states
           states2 == IF item.state \in DOMAIN states1
                        THEN states1
                        ELSE SetProperty(states1, item.state, << >>)
           states3 == SetProperty(states2, item.state,
                                  Append(states2[item.state], menuItems[k]))
       IN HierarchyForEach(st, menuItems, k + 1,
                           SetProperty(h1, item.structuralSubtype,
                                       [states |-> states3]))

\* MenuService.getMenuHierarchy(domain, includeArchived): the scan it made
\* (menuItems) and the hierarchy it returns
getMenuHierarchy(domain, includeArchived) ==
  /\ prev' = store
  /\ op' = "getMenuHierarchy"
  /\ arg' = [domain |-> domain, includeArchived |-> includeArchived]
  /\ err' = "none"
  /\ \E menuItems \in findByDomain(store, domain, includeArchived) :
       result' = [menuItems |-> menuItems,
                  hierarchy |->
                    [domain |-> domain,
                     structuralSubtypes |->
                       HierarchyForEach(store, menuItems, 1, << >>)]]
  /\ store' = store

\* ---------------------------------------------- one call on such a store
Create ==
  /\ op = "init"
  /\ \E id \in Ids, dto \in CreateDtos : create(id, dto)
  /\ UNCHANGED <<calls, steps>>

Update ==
  /\ op = "init"
  /\ \E id \in Ids, dto \in UpdateDtos : update(id, dto)
  /\ UNCHANGED <<calls, steps>>

Remove ==
  /\ op = "init"
  /\ \E id \in Ids : remove(id)
  /\ UNCHANGED <<calls, steps>>

Archive ==
  /\ op = "init"
  /\ \E id \in Ids : archive(id)
  /\ UNCHANGED <<calls, steps>>

Unarchive ==
  /\ op = "init"
  /\ \E id \in Ids : unarchive(id)
  /\ UNCHANGED <<calls, steps>>

FindOne ==
  /\ op = "init"
  /\ \E id \in Ids : findOneCall(id)
  /\ UNCHANGED <<calls, steps>>

FindByGroup ==
  /\ op = "init"
  /\ \E k \in HierarchyKeys, includeArchived \in BOOLEAN :
       findByGroupCall(k[1], k[2], k[3], includeArchived)
  /\ UNCHANGED <<calls, steps>>

GetMenuHierarchy ==
  /\ op = "init"
  /\ \E domain \in DomainEnum, includeArchived \in BOOLEAN :
       getMenuHierarchy(domain, includeArchived)
  /\ UNCHANGED <<calls, steps>>

NextCrud ==
  \/ Create \/ Update \/ Remove \/ Archive \/ Unarchive
  \/ FindOne \/ FindByGroup \/ GetMenuHierarchy \/ Move

SpecCrud == InitCrud /\ [][NextCrud]_vars

\* ------------------------------------ claims about create and the reads
\* C11: after a create on a store whose groups are all dense, the sibling
\* group of the new document has sortIds exactly 1..N without duplicates
C11_CreateKeepsGroupDense ==
  (op = "create" /\ err = "none" /\ DenseStore(prev)) =>
    DenseSet(store, GroupOf(store, arg.id))

\* the leaf lists of structuralSubtypes concatenated in (structuralSubtype,
\* state) order, from the i-th subtype and j-th state on
RECURSIVE ConcatLeaves(_, _, _)
ConcatLeaves(structuralSubtypes, i, j) ==
  IF i > Len(SubtypeOrder) THEN << >>
  ELSE IF j > Len(StateOrder) THEN ConcatLeaves(structuralSubtypes, i + 1, 1)
  ELSE (IF /\ SubtypeOrder[i] \in DOMAIN structuralSubtypes
           /\ StateOrder[j] \in DOMAIN structuralSubtypes[SubtypeOrder[i]].states
          THEN structuralSubtypes[SubtypeOrder[i]].states[StateOrder[j]]
          ELSE << >>)
         \o ConcatLeaves(structuralSubtypes, i, j + 1)

\* the documents a default hierarchy read of the call's domain is about
DomainItems ==
  {j \in DOMAIN prev :
     prev[j].domain = arg.domain /\ (arg.includeArchived \/ ~prev[j].archived)}

\* C12: the hierarchy's leaf lists, concatenated in (structuralSubtype, state)
\* order, are the scan of the domain's items (archived ones left out by
\* default) in (structuralSubtype, state, sortId) order: each such item once,
\* under its own subtype and state, and no other; and the store is unchanged
C12_HierarchyIsProjection ==
  op = "getMenuHierarchy" =>
    LET h == result.hierarchy.structuralSubtypes
        flat == ConcatLeaves(h, 1, 1)
    IN /\ flat = result.menuItems
       /\ {flat[k] : k \in 1..Len(flat)} = DomainItems
       /\ Len(flat) = Cardinality(DomainItems)
       /\ \A a, b \in 1..Len(flat) : a < b =>
            LET x == prev[flat[a]]
                y == prev[flat[b]]
                sx == OrderIndex(SubtypeOrder, x.structuralSubtype)
                sy == OrderIndex(SubtypeOrder, y.structuralSubtype)
                tx == OrderIndex(StateOrder, x.state)
                ty == OrderIndex(StateOrder, y.state)
            IN sx < sy \/ (sx = sy /\ (tx < ty \/ (tx = ty /\ x.sortId <= y.sortId)))
       /\ \A sub \in DOMAIN h : \A sta \in DOMAIN h[sub].states :
            \A k \in 1..Len(h[sub].states[sta]) :
              /\ prev[h[sub].states[sta][k]].structuralSubtype = sub
              /\ prev[h[sub].states[sta][k]].state = sta
       /\ result.hierarchy.domain = arg.domain
       /\ store = prev

\* a default read of a domain that holds an archived document and documents
\* of two subtypes, two of them with the same sortId
C12_Witness ==
  /\ op = "getMenuHierarchy"
  /\ ~arg.includeArchived
  /\ \E j \in DOMAIN prev : prev[j].domain = arg.domain /\ prev[j].archived
  /\ Cardinality(DOMAIN result.hierarchy.structuralSubtypes) = 2
  /\ \E a, b \in DomainItems : a # b /\ prev[a].sortId = prev[b].sortId

\* C13: every document whose stored fields an operation changed has a
\* strictly greater version afterwards, and no version decreases
C13_VersionBumpedOnEveryWrite ==
  \A j \in DOMAIN prev \cap DOMAIN store :
    /\ store[j].version >= prev[j].version
    /\ store[j] # prev[j] => store[j].version > prev[j].version

\* C14: a default group read returns the partition's documents that are not
\* archived and no archived one; findOne returns an archived document like any
\* other; a move numbers the archived siblings with the others (both groups
\* end dense and the position is clamped to the count that includes them);
\* archive and unarchive change the flag of their document and no sortId or
\* parentId
C14_ArchivedKeepTheirSlot ==
  /\ (op = "findByGroup" /\ ~arg.includeArchived) =>
       {result[k] : k \in 1..Len(result)}
         = {j \in InPartition(prev, arg.domain, arg.structuralSubtype, arg.state) :
              ~prev[j].archived}
  /\ (op = "findOne" /\ arg.id \in DOMAIN prev) =>
       err = "none" /\ result = prev[arg.id]
  /\ (Moved /\ PreDense) =>
       /\ DenseSet(store, SourceGroup(store))
       /\ DenseSet(store, DestGroup(store))
       /\ store[arg.id].sortId = Saturate(Requested, Cardinality(DestSiblings))
       /\ \A j \in DOMAIN store : store[j].archived = prev[j].archived
  /\ (op \in {"archive", "unarchive"} /\ err = "none") =>
       /\ DOMAIN store = DOMAIN prev
       /\ store[arg.id].archived = (op = "archive")
       /\ \A j \in DOMAIN store :
            /\ store[j].sortId = prev[j].sortId
            /\ store[j].parentId = prev[j].parentId
            /\ j # arg.id => store[j] = prev[j]

\* a move behind two siblings of which one is archived: the moved document
\* gets position 3
C14_Witness ==
  /\ Moved /\ PreDense
  /\ Cardinality(DestSiblings) = 2
  /\ \E j \in DestSiblings : prev[j].archived
  /\ \E j \in DestSiblings : ~prev[j].archived
  /\ Requested >= 3
  /\ store[arg.id].sortId = 3

\* ------------------------------------------------ claims about remove
\* C20: remove of an existing document deletes that document and changes no
\* field of any other, so its former siblings keep their sortIds; remove,
\* update and findOne of an id that resolves to nothing fail with NotFound and
\* leave the store as it was
C20_RemoveDeletesOnlyTheItem ==
  /\ (op = "remove" /\ arg.id \in DOMAIN prev) =>
       /\ err = "none"
       /\ DOMAIN store = DOMAIN prev \ {arg.id}
       /\ \A j \in DOMAIN store : store[j] = prev[j]
  /\ (op \in {"remove", "update", "findOne"} /\ arg.id \notin DOMAIN prev) =>
       /\ err = "NotFound"
       /\ store = prev

\* the first of a group of at least two is removed: the group is left
\* without position 1
C20_Witness ==
  /\ op = "remove"
  /\ arg.id \in DOMAIN prev
  /\ prev[arg.id].sortId = 1
  /\ Cardinality(GroupOf(prev, arg.id)) >= 2
  /\ \A j \in GroupOf(prev, arg.id) \ {arg.id} :
       j \in DOMAIN store /\ store[j].sortId >= 2

\* ------------------------------------------------- sequences of calls
\* up to MaxSteps calls, one after the other, of create, update, remove, move
\* and the two bulk reorders, on a store whose parentIds all resolve
SeqCreateDtos ==
  [key : CallPartitions, sortId : 1..MaxNodes, parentId : ParentRefs,
   archived : {FALSE}]

\* whole positions 1 and MaxPos, doubled
SeqSortInputs == {2, 2 * MaxPos}

SeqCreate ==
  /\ steps < MaxSteps
  /\ \E id \in Ids, dto \in SeqCreateDtos : create(id, dto)
  /\ steps' = steps + 1
  /\ UNCHANGED calls

SeqUpdate ==
  /\ steps < MaxSteps
  /\ \E id \in Ids, dto \in UpdateDtos : update(id, dto)
  /\ steps' = steps + 1
  /\ UNCHANGED calls

SeqRemove ==
  /\ steps < MaxSteps
  /\ \E id \in Ids : remove(id)
  /\ steps' = steps + 1
  /\ UNCHANGED calls

SeqMove ==
  /\ steps < MaxSteps
  /\ \E id \in Ids, h \in SeqSortInputs, p \in ParentRefs :
       reorderMenuItems([id |-> id, sortId |-> h, parentId |-> p])
  /\ steps' = steps + 1
  /\ UNCHANGED <<result, calls>>

SeqReorderFlat ==
  /\ steps < MaxSteps
  /\ \E k \in CallPartitions, itemIds \in FlatInputs :
       reorderFlat(k[1], k[2], k[3], itemIds)
  /\ steps' = steps + 1
  /\ UNCHANGED <<result, calls>>

SeqReorderTree ==
  /\ steps < MaxSteps
  /\ \E k \in CallPartitions, n \in 0..1 :
       \E labels \in [1..n -> TreeLabels] :
         reorderMenuItemsHierarchical(k[1], k[2], k[3],
                                      ForestOf(labels, [i \in 1..n |-> 0], 1, n, 0))
  /\ steps' = steps + 1
  /\ UNCHANGED <<result, calls>>

NextSeq ==
  \/ SeqCreate \/ SeqUpdate \/ SeqRemove
  \/ SeqMove \/ SeqReorderFlat \/ SeqReorderTree

SpecSeq == InitBulk /\ [][NextSeq]_vars

\* C15: in every state reached by a sequence of create, update, remove, move,
\* flat reorder and tree reorder, a parentId that is present is the id of a
\* document in the store
C15_ParentIdsResolve ==
  \A j \in DOMAIN store :
    Truthy(store[j].parentId) => store[j].parentId \in DOMAIN store

\* ------------------------------------------------ move, step by step
\* reorderMenuItems awaits the store six times: findOne, the find of the old
\* siblings, their bulkWrite, the find of the new siblings, their bulkWrite
\* and the findByIdAndUpdate of the moved document.  A call under way is a
\* record: its input, pc (the await it is about to make), the method's local
\* variables, the error it ended with and where, and three notes for the
\* properties below: overlapped (another call was under way when it began),
\* wrote (it has written to the store) and fresh (no other call had written
\* when it read the destination siblings).
NoDoc ==
  [domain |-> "", structuralSubtype |-> "", state |-> "", parentId |-> Undefined,
   sortId |-> 0, archived |-> FALSE, version |-> 0]

NewCall(updateItem) ==
  [updateItem |-> updateItem, pc |-> "findOne", existing |-> NoDoc,
   requestedPosition |-> 0, oldSiblings |-> << >>, bulkOps |-> << >>,
   err |-> "none", failedAt |-> "none",
   overlapped |-> FALSE, wrote |-> FALSE, fresh |-> FALSE]

Procs == DOMAIN calls

UnderWay(c) == c.pc \notin {"findOne", "done", "failed"}

\* const existing = await this.findOne(updateItem._id), then requestedPosition
\* and parentChanged
Lookup(p) ==
  LET c == calls[p]
      id == c.updateItem.id
  IN /\ c.pc = "findOne"
     /\ calls' =
          IF findOne(store, id) # "none"
            THEN [calls EXCEPT ![p].pc = "failed",
                               ![p].err = findOne(store, id),
                               ![p].failedAt = "findOne"]
            ELSE [calls EXCEPT
                    ![p].existing = store[id],
                    ![p].requestedPosition = NormalizePosition(c.updateItem.sortId),
                    ![p].overlapped = \E q \in Procs \ {p} : UnderWay(calls[q]),
                    ![p].pc = IF ParentChanged(store[id], c.updateItem)
                                THEN "findOld" ELSE "findNew"]
     /\ store' = store

\* faulty variant: the old siblings are not read and not renumbered
FindOldSkipped(p) ==
  /\ calls[p].pc = "findOld"
  /\ calls' = [calls EXCEPT ![p].pc = "findNew"]
  /\ store' = store

\* oldSiblings = await find(buildSiblingFilter(existing.parentId, existing._id))
FindOld(p) ==
  LET c == calls[p]
  IN /\ c.pc = "findOld"
     /\ \E oldSiblings \in SortBySortId(store,
                             FindSiblings(store, c.existing, c.existing.parentId,
                                          c.updateItem.id)) :
          calls' = [calls EXCEPT
                      ![p].oldSiblings = oldSiblings,
                      ![p].pc = IF Len(oldSiblings) > 0 THEN "writeOld" ELSE "findNew"]
     /\ store' = store

\* await this.menuItemModel.bulkWrite(bulkOld)
WriteOld(p) ==
  LET c == calls[p]
  IN /\ c.pc = "writeOld"
     /\ store' = BulkWriteSortId(store, BulkOld(c.oldSiblings))
     /\ calls' = [calls EXCEPT ![p].pc = "findNew", ![p].wrote = TRUE]

\* siblings = await find(buildSiblingFilter(targetParentId, existing._id)),
\* then the clamp and the loop that builds bulkOps
FindNew(p) ==
  LET c == calls[p]
  IN /\ c.pc = "findNew"
     /\ \E siblings \in SortBySortId(store,
                          FindSiblings(store, c.existing, c.updateItem.parentId,
                                       c.updateItem.id)) :
          LET requestedPosition == ClampPosition(c.requestedPosition, Len(siblings))
              bulkOps == BulkOps(store, siblings, requestedPosition)
          IN calls' = [calls EXCEPT
                         ![p].requestedPosition = requestedPosition,
                         ![p].bulkOps = bulkOps,
                         ![p].fresh = \A q \in Procs \ {p} : ~calls[q].wrote,
                         ![p].pc = IF Len(bulkOps) > 0 THEN "writeNew" ELSE "commit"]
     /\ store' = store

\* await this.menuItemModel.bulkWrite(bulkOps) (the find that follows it is
\* only logged)
WriteNew(p) ==
  LET c == calls[p]
  IN /\ c.pc = "writeNew"
     /\ store' = BulkWriteSortId(store, c.bulkOps)
     /\ calls' = [calls EXCEPT ![p].pc = "commit", ![p].wrote = TRUE]

\* faulty variant: the result of findByIdAndUpdate is not checked for null
CommitUnchecked(p) ==
  LET c == calls[p]
      id == c.updateItem.id
  IN /\ c.pc = "commit"
     /\ store' = IF id \in DOMAIN store
                   THEN CommitMoved(store, id, c.updateItem.parentId,
                                    c.requestedPosition)
                   ELSE store
     /\ calls' = [calls EXCEPT ![p].pc = "done", ![p].wrote = TRUE]

\* updatedItem = await findByIdAndUpdate(existingId, ...); NotFound when null
Commit(p) ==
  LET c == calls[p]
      id == c.updateItem.id
  IN /\ c.pc = "commit"
     /\ IF id \in DOMAIN store
          THEN /\ store' = CommitMoved(store, id, c.updateItem.parentId,
                                       c.requestedPosition)
               /\ calls' = [calls EXCEPT ![p].pc = "done", ![p].wrote = TRUE]
          ELSE /\ store' = store
               /\ calls' = [calls EXCEPT ![p].pc = "failed",
                                         ![p].err = "NotFound",
                                         ![p].failedAt = "commit"]

LookupStep ==
  /\ \E p \in Procs : Lookup(p)
  /\ UNCHANGED <<prev, op, arg, err, result, steps>>

FindOldStep ==
  /\ \E p \in Procs : FindOld(p)
  /\ UNCHANGED <<prev, op, arg, err, result, steps>>

WriteOldStep ==
  /\ \E p \in Procs : WriteOld(p)
  /\ UNCHANGED <<prev, op, arg, err, result, steps>>

FindNewStep ==
  /\ \E p \in Procs : FindNew(p)
  /\ UNCHANGED <<prev, op, arg, err, result, steps>>

WriteNewStep ==
  /\ \E p \in Procs : WriteNew(p)
  /\ UNCHANGED <<prev, op, arg, err, result, steps>>

CommitStep ==
  /\ \E p \in Procs : Commit(p)
  /\ UNCHANGED <<prev, op, arg, err, result, steps>>

\* ------------------------------------------------- two moves at once
\* the stores two concurrent moves start from: one partition, every document
\* a root or a child of document 1
RaceParentMaps == [Ids -> {Undefined, 1}]

\* the inputs of the two moves: any id, a whole position 1..MaxNodes (doubled)
\* and the root group or the children of document 1
RaceInputs ==
  [id : Ids, sortId : {2 * n : n \in 1..MaxNodes}, parentId : {Undefined, 1}]

InitRace ==
  /\ \E present \in Presents, par \in RaceParentMaps :
       store = MakeStore(present, [i \in Ids |-> <<"ADMIN", "NAV", "FULL">>],
                         par, TRUE)
  /\ prev = store
  /\ op = "init"
  /\ arg = NoArg
  /\ err = "none"
  /\ result = NoResult
  /\ steps = 0
  /\ \E u1, u2 \in RaceInputs : calls = << NewCall(u1), NewCall(u2) >>

NextRace ==
  \/ LookupStep \/ FindOldStep \/ WriteOldStep
  \/ FindNewStep \/ WriteNewStep \/ CommitStep

SpecRace == InitRace /\ [][NextRace]_vars

\* every call has returned or thrown
AllDone == \A p \in Procs : calls[p].pc \in {"done", "failed"}

\* no call began while another was under way
Serial == \A p \in Procs : ~calls[p].overlapped

\* C16: nothing stops either of two moves (a call fails only with NotFound, for
\* an id that resolves to nothing; there is no Conflict); when neither began
\* while the other was under way every group ends dense, so the state of the
\* witness, a group with duplicate or missing sortIds after both moves of that
\* group returned, is the work of the interleaving
C16_OnlyInterleavingBreaksDensity ==
  /\ \A p \in Procs :
       /\ calls[p].err \in {"none", "NotFound"}
       /\ calls[p].err = "NotFound" => calls[p].updateItem.id \notin DOMAIN prev
       /\ calls[p].pc = "failed" => calls[p].err = "NotFound"
  /\ (AllDone /\ Serial) => DenseStore(store)

\* two moves within one group, of different documents, each of which read the
\* group before the other wrote: both returned and the group is not dense
C16_Witness ==
  /\ calls[1].pc = "done" /\ calls[2].pc = "done"
  /\ calls[1].updateItem.id # calls[2].updateItem.id
  /\ calls[1].updateItem.parentId = calls[2].updateItem.parentId
  /\ calls[1].existing.parentId = calls[1].updateItem.parentId
  /\ calls[2].existing.parentId = calls[2].updateItem.parentId
  /\ calls[1].fresh /\ calls[2].fresh
  /\ ~DenseSet(store, Group(store, "ADMIN", "NAV", "FULL",
                            calls[1].updateItem.parentId))

\* ------------------------------------- a move on a store with anomalies
\* the store st with the sortId of each document set from sort
WithSortIds(st, sort) ==
  [j \in DOMAIN st |-> [st[j] EXCEPT !.sortId = sort[j]]]

\* any sortIds 0..MaxNodes+1: gaps, duplicates and values outside 1..N
AnySortIds == [Ids -> 0..(MaxNodes + 1)]

\* whole positions 0..MaxPos, doubled
RepairSortInputs == {2 * n : n \in 0..MaxPos}

InitAnomalous ==
  /\ \E present \in Presents, par \in RaceParentMaps, sort \in AnySortIds :
       store = WithSortIds(MakeStore(present,
                                     [i \in Ids |-> <<"ADMIN", "NAV", "FULL">>],
                                     par, TRUE),
                           sort)
  /\ prev = store
  /\ op = "init"
  /\ arg = NoArg
  /\ err = "none"
  /\ Idle

MoveToRepair ==
  /\ op = "init"
  /\ \E id \in Ids, h \in RepairSortInputs, p \in {Undefined, Null, 1} :
       reorderMenuItems([id |-> id, sortId |-> h, parentId |-> p])
  /\ UNCHANGED <<result, calls, steps>>

NextRepair == MoveToRepair

SpecRepair == InitAnomalous /\ [][NextRepair]_vars

\* C17: whatever the sortIds of a group were (gaps, duplicates, values outside
\* 1..N), a move of an existing document that runs alone does not fail, and
\* afterwards the group it left and the group it joined both have sortIds
\* exactly 1..N without duplicates, whichever order equal sortIds were fetched in
C17_MoveRepairsGroups ==
  (op = "move" /\ arg.id \in DOMAIN prev) =>
    /\ err = "none"
    /\ arg.id \in DestGroup(store)
    /\ DenseSet(store, SourceGroup(store))
    /\ DenseSet(store, DestGroup(store))

\* a move within a group of three that had no document at position 1 and two
\* siblings with the same sortId
C17_Witness ==
  /\ SameGroupMove
  /\ Cardinality(SourceGroup(prev)) = 3
  /\ \A j \in SourceGroup(prev) : prev[j].sortId # 1
  /\ \E i, j \in SourceGroup(prev) \ {arg.id} : i # j /\ prev[i].sortId = prev[j].sortId
  /\ DenseSet(store, SourceGroup(store))

\* ------------------------------------------ a move whose store fails
\* faulty variant: a storage error is rethrown as a Conflict, as the catch of
\* create and update does for a duplicate key
RethrowAsConflict(error) == IF error = "StorageError" THEN "Conflict" ELSE error

\* reorderMenuItems has no try/catch: the rejection of an awaited call leaves
\* the method as it was thrown
Rethrow(error) == error

\* the call p has ended with error, thrown by the await at its pc
Thrown(p, error) ==
  [calls EXCEPT ![p].pc = "failed", ![p].err = Rethrow(error),
                ![p].failedAt = calls[p].pc]

\* a find, findById or findByIdAndUpdate is rejected by the store: nothing is
\* written
StorageFails(p) ==
  /\ calls[p].pc \in {"findOne", "findOld", "findNew", "commit"}
  /\ calls' = Thrown(p, "StorageError")
  /\ store' = store

\* a bulkWrite is rejected: the batch is ordered, so the updates before the
\* failing one are applied and the rest are not
BulkWriteFails(p) ==
  LET c == calls[p]
      ops == IF c.pc = "writeOld" THEN BulkOld(c.oldSiblings) ELSE c.bulkOps
  IN /\ c.pc \in {"writeOld", "writeNew"}
     /\ \E k \in 0..(Len(ops) - 1) :
          /\ store' = BulkWriteSortId(store, SubSeq(ops, 1, k))
          /\ calls' = [Thrown(p, "StorageError") EXCEPT ![p].wrote = @ \/ k > 0]

StorageFailsStep ==
  /\ \E p \in Procs : StorageFails(p)
  /\ UNCHANGED <<prev, op, arg, err, result, steps>>

BulkWriteFailsStep ==
  /\ \E p \in Procs : BulkWriteFails(p)
  /\ UNCHANGED <<prev, op, arg, err, result, steps>>

\* the input of the move: any id, a whole position 1..MaxPos (doubled) and no
\* parent, a null parent or document 1
FailInputs ==
  [id : Ids, sortId : {2 * n : n \in 1..MaxPos}, parentId : {Undefined, Null, 1}]

InitFail ==
  /\ \E present \in Presents, par \in RaceParentMaps, up \in BOOLEAN :
       store = MakeStore(present, [i \in Ids |-> <<"ADMIN", "NAV", "FULL">>],
                         par, up)
  /\ prev = store
  /\ op = "init"
  /\ arg = NoArg
  /\ err = "none"
  /\ result = NoResult
  /\ steps = 0
  /\ \E u \in FailInputs : calls = << NewCall(u) >>

NextFail ==
  \/ LookupStep \/ FindOldStep \/ WriteOldStep
  \/ FindNewStep \/ WriteNewStep \/ CommitStep
  \/ StorageFailsStep \/ BulkWriteFailsStep

SpecFail == InitFail /\ [][NextFail]_vars

\* the one move of this specification, its document and its two groups
TheCall == calls[1]

TheId == TheCall.updateItem.id

\* it ended on a storage error after the lookup
FailedMove ==
  /\ TheCall.pc = "failed"
  /\ TheCall.err = "StorageError"
  /\ TheCall.failedAt # "findOne"

FailedCrossGroupMove ==
  /\ FailedMove
  /\ ~SameGroupRef(prev[TheId].parentId, TheCall.updateItem.parentId)

\* the siblings it leaves and the siblings it joins, as they were before
OldSibs ==
  Group(prev, prev[TheId].domain, prev[TheId].structuralSubtype,
        prev[TheId].state, prev[TheId].parentId) \ {TheId}

NewSibs ==
  Group(prev, prev[TheId].domain, prev[TheId].structuralSubtype,
        prev[TheId].state, TheCall.updateItem.parentId) \ {TheId}

\* the position a destination sibling gets: its rank, one more from the
\* position reserved for the moved document on
NewPosition(j) ==
  LET P == Saturate(TheCall.updateItem.sortId \div 2, Cardinality(NewSibs))
      r == Rank(prev, NewSibs, j)
  IN IF r < P THEN r ELSE r + 1

\* the source group is closed: the siblings left behind are numbered 1..M-1
SourceClosed == \A j \in OldSibs : store[j].sortId = Rank(prev, OldSibs, j)

\* the destination group is resequenced: every sibling stands at its new position
DestResequenced == \A j \in NewSibs : store[j].sortId = NewPosition(j)

DestUntouched == \A j \in NewSibs : store[j] = prev[j]

\* both groups had something to renumber
BothGroupsNeedWrites ==
  /\ \E j \in OldSibs : prev[j].sortId # Rank(prev, OldSibs, j)
  /\ \E j \in NewSibs : prev[j].sortId # NewPosition(j)

\* C18 as stated: a cross-group move that fails between phases ends in one of
\* two states, the source closed and the destination not resequenced, or the
\* destination resequenced and the source not closed; the moved document
\* keeps its parentId and sortId
C18_EitherOfTwoStates ==
  (/\ FailedCrossGroupMove
   /\ TheCall.failedAt \in {"findNew", "writeNew", "commit"}
   /\ BothGroupsNeedWrites) =>
    /\ store[TheId] = prev[TheId]
    /\ \/ SourceClosed /\ ~DestResequenced
       \/ DestResequenced /\ ~SourceClosed

\* C18 amended: a cross-group move that fails leaves the moved document as it
\* was; once phase 1 is over the source is closed, and the destination is
\* untouched (failure before its batch), partly renumbered (failure in its
\* batch) or resequenced (failure of the commit); the destination is never
\* written while the source is not closed
C18_SourceClosedFirst ==
  FailedCrossGroupMove =>
    /\ store[TheId] = prev[TheId]
    /\ TheCall.failedAt \in {"findNew", "writeNew", "commit"} => SourceClosed
    /\ TheCall.failedAt \in {"findOld", "writeOld", "findNew"} => DestUntouched
    /\ TheCall.failedAt = "writeNew" =>
         /\ ~DestResequenced
         /\ \A j \in NewSibs : store[j].sortId \in {prev[j].sortId, NewPosition(j)}
    /\ TheCall.failedAt = "commit" => DestResequenced
    /\ ~SourceClosed => DestUntouched

\* the commit fails after both batches were written: source closed and
\* destination resequenced, the moved document still where it was
C18_Witness ==
  /\ FailedCrossGroupMove
  /\ TheCall.failedAt = "commit"
  /\ BothGroupsNeedWrites
  /\ SourceClosed
  /\ DestResequenced
  /\ store[TheId] = prev[TheId]

\* C19 as stated: a move that a persistence error ended surfaces a Conflict or
\* a NotFound, never another kind
C19_ConflictOrNotFound ==
  \A p \in Procs :
    calls[p].pc = "failed" => calls[p].err \in {"Conflict", "NotFound"}

\* C19 amended: the step that ends a move in an error surfaces NotFound only
\* for an id that resolves to nothing, and otherwise the storage layer's own
\* error, never Conflict; it writes nothing unless it is a batch that was cut
\* short; and after it the call does nothing more (no retry, no further write)
C19_ErrorsSurfaceAsThrown ==
  [][\A p \in Procs :
       /\ (calls[p].pc # "failed" /\ calls'[p].pc = "failed") =>
            /\ calls'[p].err \in {"NotFound", "StorageError"}
            /\ calls'[p].err = "NotFound" =>
                 /\ calls[p].pc \in {"findOne", "commit"}
                 /\ calls[p].updateItem.id \notin DOMAIN store
            /\ calls[p].pc \notin {"writeOld", "writeNew"} => store' = store
       /\ calls[p].pc = "failed" => (calls'[p] = calls[p] /\ store' = store)]_vars

\* the destination batch was cut short after its first update
C19_Witness ==
  /\ TheCall.pc = "failed"
  /\ TheCall.err = "StorageError"
  /\ TheCall.failedAt = "writeNew"
  /\ TheCall.wrote
  /\ \E j \in NewSibs : store[j].sortId # prev[j].sortId
  /\ \E j \in NewSibs : store[j].sortId # NewPosition(j)

\* ------------------------------------------------ claims about update
\* C21: an update of an existing document sets the fields sent on that
\* document and changes no other document, whatever the fields are (state,
\* sortId, parentId, ...): no document of the group it leaves or of the group
\* it joins is renumbered
C21_UpdateWritesOnlyTheItem ==
  (op = "update" /\ arg.id \in DOMAIN prev) =>
    /\ err = "none"
    /\ DOMAIN store = DOMAIN prev
    /\ \A j \in DOMAIN store : j # arg.id => store[j] = prev[j]
    /\ store[arg.id].state =
         (IF "state" \in arg.dto.fields THEN arg.dto.state ELSE prev[arg.id].state)
    /\ store[arg.id].sortId =
         (IF "sortId" \in arg.dto.fields THEN arg.dto.sortId ELSE prev[arg.id].sortId)
    /\ store[arg.id].parentId =
         (IF "parentId" \in arg.dto.fields THEN arg.dto.parentId
          ELSE prev[arg.id].parentId)

\* a change of state takes the first of a dense group of two into a group
\* that holds a document at the same position: the old group keeps a hole and
\* the new group a duplicate
C21_Witness ==
  /\ op = "update" /\ err = "none"
  /\ "state" \in arg.dto.fields
  /\ store[arg.id].state # prev[arg.id].state
  /\ DenseStore(prev)
  /\ \E j \in GroupOf(prev, arg.id) \ {arg.id} :
       ~DenseSet(store, GroupOf(store, j))
  /\ \E j \in GroupOf(store, arg.id) \ {arg.id} :
       store[j].sortId = store[arg.id].sortId

\* ------------------------------------------- claims about the phases
\* C22: the gap closure runs only when the document changes groups: a move
\* whose target parent denotes the group the document is in (the same parent,
\* or root to root, the root parent being absent or null) issues no write to
\* the siblings it had, and a move to another group has renumbered them 1..M
\* in ascending sortId order when the destination is read
C22_GapClosureOnlyOnGroupChange ==
  /\ TheCall.pc = "writeOld" =>
       ~SameGroupRef(prev[TheId].parentId, TheCall.updateItem.parentId)
  /\ (/\ TheCall.pc = "findNew"
      /\ ~SameGroupRef(prev[TheId].parentId, TheCall.updateItem.parentId))
       => SourceClosed

\* the destination siblings as the store has them now, the position each is
\* due, and those that do not stand on it
NowSibs ==
  Group(store, prev[TheId].domain, prev[TheId].structuralSubtype,
        prev[TheId].state, TheCall.updateItem.parentId) \ {TheId}

NowPosition(j) ==
  LET P == Saturate(TheCall.updateItem.sortId \div 2, Cardinality(NowSibs))
      r == Rank(store, NowSibs, j)
  IN IF r < P THEN r ELSE r + 1

Displaced == {j \in NowSibs : store[j].sortId # NowPosition(j)}

QueuedIds(ops) == {ops[k].id : k \in 1..Len(ops)}

\* C23: in the insertion phase a destination sibling is queued, and then
\* written, exactly when the position it is due differs from its stored
\* sortId; the siblings in place are left as they are, and when none is
\* displaced the write is not issued at all
C23_WrittenIffDisplaced ==
  [][/\ (calls[1].pc = "findNew" /\ calls'[1].pc \in {"writeNew", "commit"}) =>
          /\ QueuedIds(calls'[1].bulkOps) = Displaced
          /\ Len(calls'[1].bulkOps) = Cardinality(Displaced)
          /\ \A k \in 1..Len(calls'[1].bulkOps) :
               calls'[1].bulkOps[k].sortId = NowPosition(calls'[1].bulkOps[k].id)
          /\ (calls'[1].pc = "commit") <=> (Displaced = {})
          /\ store' = store
     /\ (calls[1].pc = "writeNew" /\ calls'[1].pc = "commit") =>
          /\ \A j \in DOMAIN store : j \notin Displaced => store'[j] = store[j]
          /\ \A j \in Displaced :
               /\ store'[j].sortId = NowPosition(j)
               /\ store'[j].sortId # store[j].sortId
    ]_vars

\* the write of the insertion phase is done: one sibling was queued and
\* another, in place, was not
C23_Witness ==
  /\ TheCall.pc = "commit"
  /\ Len(TheCall.bulkOps) > 0
  /\ \E j \in NowSibs : j \notin QueuedIds(TheCall.bulkOps)

\* ------------------------------------------- claims about the commit
\* C24: after a completed move the parentId of the moved document is the
\* target parent; without a target parent (absent or null) the stored parent
\* reference is removed, so the document is in the root group
C24_ParentIsTarget ==
  Moved =>
    /\ arg.parentId \in Ids => store[arg.id].parentId = arg.parentId
    /\ arg.parentId \notin Ids =>
         /\ store[arg.id].parentId = Undefined
         /\ arg.id \in Group(store, prev[arg.id].domain,
                             prev[arg.id].structuralSubtype,
                             prev[arg.id].state, Undefined)

\* a child is moved to the root group
C24_Witness ==
  /\ Moved
  /\ prev[arg.id].parentId \in Ids
  /\ arg.parentId \notin Ids
  /\ store[arg.id].parentId # prev[arg.id].parentId

\* --------------------------------------- claims about the sibling filter
\* C25: for every document x of the store and every parent reference p, the
\* sibling filter of x for p selects exactly the other documents with the
\* domain, structuralSubtype and state of x whose parentId is p when p is a
\* parent, and is absent or null when p is missing: never x, and for a
\* missing parent never a document with a concrete parentId
C25_SiblingFilterSelectsTheGroup ==
  \A x \in DOMAIN store : \A p \in ParentRefs :
    LET S == FindSiblings(store, store[x], p, x)
    IN /\ x \notin S
       /\ \A j \in DOMAIN store \ {x} :
            j \in S <=>
              /\ store[j].domain = store[x].domain
              /\ store[j].structuralSubtype = store[x].structuralSubtype
              /\ store[j].state = store[x].state
              /\ p \in Ids => store[j].parentId = p
              /\ p \notin Ids => store[j].parentId \notin Ids

\* after a write the store holds, in one partition, a root without parentId,
\* a root with a null parentId and a child: the root filter of the child
\* selects both roots, the root filter of a root leaves the child out
C25_Witness ==
  /\ op # "init"
  /\ \E x \in DOMAIN store :
       LET S == FindSiblings(store, store[x], Null, x)
       IN /\ store[x].parentId \in Ids
          /\ \E a, b \in S : /\ store[a].parentId = Null
                             /\ store[b].parentId = Undefined
                             /\ x \notin FindSiblings(store, store[a], Undefined, a)
                             /\ store[x].state = store[a].state
                             /\ store[x].domain = store[a].domain
                             /\ store[x].structuralSubtype = store[a].structuralSubtype

\* ------------------------------------------ claims about the tree reorder
\* the parentIds the tree supplies for id i (Undefined: none supplied)
RECURSIVE SuppliedParents(_, _)
SuppliedParents(items, i) ==
  IF items = << >> THEN {}
  ELSE (IF Head(items).id = i THEN {Head(items).parentId} ELSE {})
         \cup SuppliedParents(Head(items).children, i)
         \cup SuppliedParents(Tail(items), i)

\* C26: after an accepted tree reorder every referenced document has the
\* sortId its node supplies and the parentId its node supplies (null when it
\* supplies null), or the parentId it had when the node supplies none - being
\* nested under a node does not set it - and every other field as before; a
\* document the tree does not reference is unchanged, none is added or removed
C26_TreeAppliesPerNode ==
  TreeAccepted =>
    /\ DOMAIN store = DOMAIN prev
    /\ \A j \in DOMAIN store :
         IF j \in TreeIds(arg.items)
           THEN /\ SuppliedSortIds(arg.items, j) = {store[j].sortId}
                /\ \A p \in SuppliedParents(arg.items, j) :
                     store[j].parentId = IF p = Undefined THEN prev[j].parentId ELSE p
                /\ store[j] = [prev[j] EXCEPT !.sortId = store[j].sortId,
                                              !.parentId = store[j].parentId]
           ELSE store[j] = prev[j]

\* an accepted tree nests a node that supplies no parentId under another node:
\* its sortId changes and its parentId stays, not being the enclosing node
C26_Witness ==
  /\ TreeAccepted
  /\ \E k \in 1..Len(arg.items) :
       /\ arg.items[k].children # << >>
       /\ LET c == arg.items[k].children[1]
          IN /\ c.parentId = Undefined
             /\ store[c.id].parentId = prev[c.id].parentId
             /\ store[c.id].parentId # arg.items[k].id
             /\ store[c.id].sortId # prev[c.id].sortId
  /\ \E j \in DOMAIN store : j \notin TreeIds(arg.items)

\* ------------------------------------------- claims about the move's frame
\* C27: a completed move adds and removes no document, changes no document's
\* domain, structuralSubtype, state or archived flag, changes the parentId of
\* the moved document only, and changes sortId only in the source and the
\* destination group of the moved document
C27_MoveTouchesItsTwoGroupsOnly ==
  Moved =>
    /\ DOMAIN store = DOMAIN prev
    /\ \A j \in DOMAIN store :
         /\ store[j].domain = prev[j].domain
         /\ store[j].structuralSubtype = prev[j].structuralSubtype
         /\ store[j].state = prev[j].state
         /\ store[j].archived = prev[j].archived
         /\ j # arg.id => store[j].parentId = prev[j].parentId
         /\ store[j].sortId # prev[j].sortId =>
              j \in SourceGroup(prev) \cup DestGroup(prev)
         /\ j \notin SourceGroup(prev) \cup DestGroup(prev) => store[j] = prev[j]

\* a move renumbers a sibling while a document of another partition with the
\* same parent reference as the destination stays as it was
C27_Witness ==
  /\ Moved
  /\ \E j \in DestSiblings : store[j].sortId # prev[j].sortId
  /\ \E j \in DOMAIN store \ DestGroup(prev) :
       /\ SameGroupRef(prev[j].parentId, arg.parentId)
       /\ store[j] = prev[j]

\* ------------------------------------------- the same move, twice in a row
\* Two calls of reorderMenuItems with the same input, the second begun when
\* the first has returned; prev is the store as the first call left it.
Turn(p) == \A q \in Procs : q < p => calls[q].pc = "done"

RunLookup ==
  /\ \E p \in Procs : Turn(p) /\ Lookup(p)
  /\ UNCHANGED <<prev, op, arg, err, result, steps>>

RunFindOld ==
  /\ \E p \in Procs : Turn(p) /\ FindOld(p)
  /\ UNCHANGED <<prev, op, arg, err, result, steps>>

RunWriteOld ==
  /\ \E p \in Procs : Turn(p) /\ WriteOld(p)
  /\ UNCHANGED <<prev, op, arg, err, result, steps>>

RunFindNew ==
  /\ \E p \in Procs : Turn(p) /\ FindNew(p)
  /\ UNCHANGED <<prev, op, arg, err, result, steps>>

RunWriteNew ==
  /\ \E p \in Procs : Turn(p) /\ WriteNew(p)
  /\ UNCHANGED <<prev, op, arg, err, result, steps>>

RunCommit ==
  /\ \E p \in Procs : /\ Turn(p)
                      /\ Commit(p)
                      /\ prev' = IF p = 1 THEN store' ELSE prev
  /\ UNCHANGED <<op, arg, err, result, steps>>

InitTwice ==
  /\ \E present \in Presents, par \in RaceParentMaps, up \in BOOLEAN :
       store = MakeStore(present, [i \in Ids |-> <<"ADMIN", "NAV", "FULL">>],
                         par, up)
  /\ prev = store
  /\ op = "init"
  /\ arg = NoArg
  /\ err = "none"
  /\ result = NoResult
  /\ steps = 0
  /\ \E u \in FailInputs : calls = << NewCall(u), NewCall(u) >>

NextTwice ==
  \/ RunLookup \/ RunFindOld \/ RunWriteOld
  \/ RunFindNew \/ RunWriteNew \/ RunCommit

SpecTwice == InitTwice /\ [][NextTwice]_vars

\* C28: the move is idempotent: the second of two identical moves in a row
\* queues no sibling update, neither for the old siblings nor for the new,
\* and leaves the sortId and the parentId of every document as the first left
\* them
C28_MoveIsIdempotent ==
  /\ calls[2].pc \notin {"writeOld", "writeNew"}
  /\ calls[2].pc = "done" =>
       \A j \in DOMAIN store : /\ store[j].sortId = prev[j].sortId
                               /\ store[j].parentId = prev[j].parentId

\* ------------------------------------------- a remove during a move
\* One reorderMenuItems call, await by await, and a remove(id) of the document
\* it moves, served by the store between two of its awaits.
RemoveDuringMove ==
  /\ \E p \in Procs :
       /\ calls[p].pc \notin {"done", "failed"}
       /\ calls[p].updateItem.id \in DOMAIN store
       /\ store' = [j \in DOMAIN store \ {calls[p].updateItem.id} |-> store[j]]
  /\ UNCHANGED <<prev, op, arg, err, result, calls, steps>>

NextRemoveRace ==
  \/ LookupStep \/ FindOldStep \/ WriteOldStep
  \/ FindNewStep \/ WriteNewStep \/ CommitStep
  \/ RemoveDuringMove

SpecRemoveRace == InitFail /\ [][NextRemoveRace]_vars

\* the document was removed after the move had looked it up
RemovedAfterLookup ==
  /\ TheId \in DOMAIN prev
  /\ TheId \notin DOMAIN store
  /\ TheCall.existing # NoDoc

\* C29: when the moved document is removed after the move's lookup and before
\* its commit, the move does not complete: it fails, with NotFound, at the
\* final update and nowhere else; by then the siblings left behind by a move
\* to another group are renumbered 1..M and the destination siblings stand at
\* their new positions, with no document at the position reserved, and these
\* writes stay
C29_RemovedItemFailsAtCommit ==
  RemovedAfterLookup =>
    /\ TheCall.pc # "done"
    /\ TheCall.pc = "failed" =>
         /\ TheCall.err = "NotFound"
         /\ TheCall.failedAt = "commit"
         /\ DestResequenced
         /\ ~SameGroupRef(prev[TheId].parentId, TheCall.updateItem.parentId)
              => SourceClosed
         /\ \A j \in NewSibs : store[j].sortId # TheCall.requestedPosition
         /\ TheCall.requestedPosition =
              Saturate(TheCall.updateItem.sortId \div 2, Cardinality(NewSibs))
         /\ \A j \in DOMAIN store : j \notin OldSibs \cup NewSibs => store[j] = prev[j]

\* the move failed at its commit after both groups were renumbered, and the
\* destination group is left with a gap
C29_Witness ==
  /\ RemovedAfterLookup
  /\ TheCall.pc = "failed"
  /\ TheCall.failedAt = "commit"
  /\ \E j \in OldSibs : store[j].sortId # prev[j].sortId
  /\ \E j \in NewSibs : store[j].sortId # prev[j].sortId
  /\ ~DenseSet(store, NewSibs)

\* ------------------------------------------- the move that saves in a loop
\* src/menu/menu.service.ts holds a reorderMenuItems that renumbers with
\* document.save() in a loop and ends with update(id, { parentId, sortId }).
\* A find with parentId: undefined or null matches an absent or a null
\* parentId.
SaveLoopParentFilter(parentId, doc) ==
  IF Truthy(parentId) THEN doc.parentId = parentId
  ELSE doc.parentId \in {Undefined, Null}

\* find({ parentId: previousItem.parentId, domain, structuralSubtype, state,
\*        _id: { $ne: previousItem._id } })
PreviousSiblings(st, id) ==
  {j \in DOMAIN st \ {id} :
     /\ SaveLoopParentFilter(st[id].parentId, st[j])
     /\ st[j].domain = st[id].domain
     /\ st[j].structuralSubtype = st[id].structuralSubtype
     /\ st[j].state = st[id].state}

\* find({ parentId: updateItem.parentId, _id: { $ne: updateItem._id } })
NewSiblingsOf(st, parentId, id) ==
  {j \in DOMAIN st \ {id} : SaveLoopParentFilter(parentId, st[j])}

\* the insertion loop from sibling i on: the sortId of updateItem, whether it
\* was inserted, and the sortId saved on each sibling
RECURSIVE InsertWalk(_, _, _, _, _, _)
InsertWalk(st, newSiblings, i, inserted, sortId, saved) ==
  IF i > Len(newSiblings)
    THEN [sortId |-> IF inserted THEN sortId ELSE Len(newSiblings) + 1,
          saved |-> saved]
  ELSE LET here == ~inserted /\ sortId <= st[newSiblings[i]].sortId
           ins == inserted \/ here
       IN InsertWalk(st, newSiblings, i + 1, ins,
                     IF here THEN i ELSE sortId,
                     Append(saved, [id |-> newSiblings[i],
                                    sortId |-> IF ins THEN i + 1 ELSE i]))

\* update(id, { parentId, sortId }): findByIdAndUpdate sets sortId and
\* parentId; an undefined parentId is dropped from the update or written as
\* null, depending on the Mongoose version
SaveLoopUpdate(st, id, parentId, sortId) ==
  {[st EXCEPT ![id] = [@ EXCEPT !.parentId = p, !.sortId = sortId,
                                !.version = @ + 1]] :
     p \in IF parentId = Undefined THEN {st[id].parentId, Null} ELSE {parentId}}

\* the stores reorderMenuItems can leave, the document being found
SaveLoopOutcomes(st, updateItem) ==
  LET id == updateItem.id
  IN IF st[id].parentId # updateItem.parentId
       THEN UNION {
              LET st1 == BulkWriteSortId(st, BulkOld(previousSiblings))
              IN UNION {
                   LET w == InsertWalk(st1, newSiblings, 1, FALSE,
                                       updateItem.sortId, << >>)
                   IN SaveLoopUpdate(BulkWriteSortId(st1, w.saved), id,
                                     updateItem.parentId, w.sortId) :
                   newSiblings \in SortBySortId(st1,
                                     NewSiblingsOf(st1, updateItem.parentId, id)) } :
              previousSiblings \in SortBySortId(st, PreviousSiblings(st, id)) }
       ELSE SaveLoopUpdate(st, id, updateItem.parentId, updateItem.sortId)

reorderMenuItemsSaveLoop(updateItem) ==
  /\ prev' = store
  /\ op' = "saveLoopMove"
  /\ arg' = updateItem
  /\ IF updateItem.id \in DOMAIN store
       THEN /\ err' = "none"
            /\ store' \in SaveLoopOutcomes(store, updateItem)
       ELSE /\ err' = "NotFound"
            /\ store' = store

SaveLoopMove ==
  /\ op = "init"
  /\ \E id \in Ids, sortId \in 0..MaxPos, p \in ParentRefs :
       reorderMenuItemsSaveLoop([id |-> id, sortId |-> sortId, parentId |-> p])
  /\ UNCHANGED <<result, calls, steps>>

NextSaveLoop == SaveLoopMove

SpecSaveLoop == InitDense /\ [][NextSaveLoop]_vars

\* C30: when the requested parentId is the parentId the document has, no
\* sibling is rewritten and only the sortId of the moved document is
\* persisted, and the sortIds of its group are still 1..N without duplicates
C30_SameParentKeepsDense ==
  (/\ op = "saveLoopMove"
   /\ err = "none"
   /\ prev[arg.id].parentId = arg.parentId) =>
    /\ \A j \in DOMAIN store : j # arg.id => store[j] = prev[j]
    /\ store[arg.id].sortId = arg.sortId
    /\ DenseSet(store, GroupOf(store, arg.id))

====
